---- MODULE Spec2Model ----
(***************************************************************************)
(* BufferedInput (velox/dwio/common/BufferedInput.cpp): enqueue, load,     *)
(* mergeRegions, tryMerge, readBuffer, readInternal; and ParallelFor as    *)
(* exercised by velox/dwio/common/tests/ParallelForTest.cpp.               *)
(***************************************************************************)
EXTENDS Integers, Sequences, FiniteSets, TLC

(* ---- bounds of the life-cycle specification (Spec) ---- *)
MaxOffset == 2
MaxLen == 2
MaxPending == 2
MaxMergeDistance == 1

(* ---- bounds of the specification that follows a stream (SpecStreams) ---- *)
StreamMaxOffset == 1
StreamMaxLen == 2
StreamMaxPending == 1

(* ---- bounds of the load-only specification (SpecLoad) ---- *)
LoadMaxEnd == 4
LoadMaxPending == 3

(* ---- bounds of the tryMerge specification (SpecMerge) ---- *)
MergeMaxOffset == 3
MergeMaxLen == 2

(* ---- bounds of the readInternal specification (SpecRead): regions end   *)
(* by ReadMaxEnd; requests lie within ProbeSpan of 0 or of MAX_UINT64 ---- *)
ReadMaxEnd == 4
ProbeSpan == 3

(* ---- bounds of the ParallelFor specifications (SpecPF, FairSpecPF) ---- *)
PFMaxIndex == 3
PFMaxFactor == 3
PFMaxThreads == 2

(* uint64_t / int64_t, scaled down to WordBits bits *)
WordBits == 8
Mod == 2 ^ WordBits
MAX_UINT64 == Mod - 1

VARIABLES
  maxMergeDistance_,  \* configuration, set at construction
  wsVRLoad_,          \* configuration: vectored read
  hasStats,           \* input_->getStats() != nullptr
  regions_,           \* RegionSet: pending regions
  offsets_,           \* buffer index: starting offsets
  buffers_,           \* buffer index: buffers (size and contents)
  streams,            \* the stream of the current cycle that the consumer is followed on (at most one)
  loadResult,         \* how the last load ended; "none" once a new cycle has started
  sortedInput,        \* the pending regions of the last load, after std::sort
  backendCalls,       \* the backend calls made by the last load
  overreadReported,   \* sum of incRawOverreadBytes values of the last load
  enqueueOrder,       \* the pending regions of the last load, in the order of their enqueue
  probe,              \* a direct call of tryMerge or readInternal: arguments and result
  pfIn,               \* ParallelFor: arguments, mode, user function and executor of the run
  pc,                 \* ParallelFor: where the caller is
  ranges_,            \* ParallelFor: the sub-ranges
  tasks,              \* ParallelFor: the sub-range tasks
  count_,             \* CountingExecutor::count_
  indexInvoked,       \* the test's map from index to number of invocations
  outOfBounds,        \* the user function was called with an index that is not in the map
  added,              \* NoWait: invocations that have started
  executed,           \* NoWait: invocations that have finished
  released            \* NoWait: the caller has set wait = false

biVars == <<maxMergeDistance_, wsVRLoad_, hasStats, regions_, offsets_, buffers_,
            streams, loadResult, sortedInput, backendCalls,
            overreadReported, enqueueOrder, probe>>

pfVars == <<pfIn, pc, ranges_, tasks, count_, indexInvoked, outOfBounds, added,
            executed, released>>

vars == <<biVars, pfVars>>

(* ---- unsigned and signed arithmetic at WordBits bits ---- *)
UAdd(a, b) == (a + b) % Mod
USub(a, b) == (a - b + 2 * Mod) % Mod
ToSigned(u) == IF u >= Mod \div 2 THEN u - Mod ELSE u
ToUnsigned(s) == (s + Mod) % Mod

(* ---- the file behind the backend ---- *)
Uninit == -1
Junk == -2
FileByte(i) == 100 + i
FileBytes(offset, length) == [i \in 1..length |-> FileByte(offset + i - 1)]

Region(offset, length) == [offset |-> offset, length |-> length]

(* Region::operator< : by offset, then by length *)
RegionLess(a, b) ==
  \/ a.offset < b.offset
  \/ (a.offset = b.offset /\ a.length < b.length)

RECURSIVE InsertRegion(_, _)
InsertRegion(r, s) ==
  IF s = <<>> THEN <<r>>
  ELSE IF RegionLess(r, Head(s)) THEN <<r>> \o s
  ELSE <<Head(s)>> \o InsertRegion(r, Tail(s))

(* std::sort(regions_.begin(), regions_.end()) *)
RECURSIVE SortRegions(_)
SortRegions(s) ==
  IF s = <<>> THEN <<>> ELSE InsertRegion(Head(s), SortRegions(Tail(s)))

(* tryMerge with the gap compared by <, not <= *)
tryMergeStrictGap(first, second) ==
  IF ~(second.offset >= first.offset)
  THEN [err |-> TRUE, merged |-> FALSE, first |-> first, over |-> 0]
  ELSE
    LET gap == ToSigned(USub(USub(second.offset, first.offset), first.length))
    IN IF gap < 0 \/ gap < maxMergeDistance_
       THEN LET extension == ToSigned(UAdd(ToUnsigned(gap), second.length))
            IN IF extension > 0
               THEN [err |-> FALSE, merged |-> TRUE,
                     first |-> [first EXCEPT !.length = UAdd(first.length, ToUnsigned(extension))],
                     over |-> IF hasStats /\ gap > 0 THEN gap ELSE 0]
               ELSE [err |-> FALSE, merged |-> TRUE, first |-> first, over |-> 0]
       ELSE [err |-> FALSE, merged |-> FALSE, first |-> first, over |-> 0]

(* tryMerge without the gap < 0 test: the signed gap is compared as unsigned *)
tryMergeUnsignedGap(first, second) ==
  IF ~(second.offset >= first.offset)
  THEN [err |-> TRUE, merged |-> FALSE, first |-> first, over |-> 0]
  ELSE
    LET gap == ToSigned(USub(USub(second.offset, first.offset), first.length))
    IN IF ToUnsigned(gap) <= maxMergeDistance_
       THEN LET extension == ToSigned(UAdd(ToUnsigned(gap), second.length))
            IN IF extension > 0
               THEN [err |-> FALSE, merged |-> TRUE,
                     first |-> [first EXCEPT !.length = UAdd(first.length, ToUnsigned(extension))],
                     over |-> IF hasStats /\ gap > 0 THEN gap ELSE 0]
               ELSE [err |-> FALSE, merged |-> TRUE, first |-> first, over |-> 0]
       ELSE [err |-> FALSE, merged |-> FALSE, first |-> first, over |-> 0]

(* tryMerge reporting the gap of every extending merge, positive or not *)
tryMergeNoGapTest(first, second) ==
  IF ~(second.offset >= first.offset)
  THEN [err |-> TRUE, merged |-> FALSE, first |-> first, over |-> 0]
  ELSE
    LET gap == ToSigned(USub(USub(second.offset, first.offset), first.length))
    IN IF gap < 0 \/ gap <= maxMergeDistance_
       THEN LET extension == ToSigned(UAdd(ToUnsigned(gap), second.length))
            IN IF extension > 0
               THEN [err |-> FALSE, merged |-> TRUE,
                     first |-> [first EXCEPT !.length = UAdd(first.length, ToUnsigned(extension))],
                     over |-> IF hasStats THEN gap ELSE 0]
               ELSE [err |-> FALSE, merged |-> TRUE, first |-> first, over |-> 0]
       ELSE [err |-> FALSE, merged |-> FALSE, first |-> first, over |-> 0]

(* tryMerge merging only when the second region extends the first *)
tryMergeExtendingOnly(first, second) ==
  IF ~(second.offset >= first.offset)
  THEN [err |-> TRUE, merged |-> FALSE, first |-> first, over |-> 0]
  ELSE
    LET gap == ToSigned(USub(USub(second.offset, first.offset), first.length))
    IN IF gap < 0 \/ gap <= maxMergeDistance_
       THEN LET extension == ToSigned(UAdd(ToUnsigned(gap), second.length))
            IN IF extension > 0
               THEN [err |-> FALSE, merged |-> TRUE,
                     first |-> [first EXCEPT !.length = UAdd(first.length, ToUnsigned(extension))],
                     over |-> IF hasStats /\ gap > 0 THEN gap ELSE 0]
               ELSE [err |-> FALSE, merged |-> FALSE, first |-> first, over |-> 0]
       ELSE [err |-> FALSE, merged |-> FALSE, first |-> first, over |-> 0]

(* tryMerge adding the extension to first.length whatever its sign *)
tryMergeAlwaysExtends(first, second) ==
  IF ~(second.offset >= first.offset)
  THEN [err |-> TRUE, merged |-> FALSE, first |-> first, over |-> 0]
  ELSE
    LET gap == ToSigned(USub(USub(second.offset, first.offset), first.length))
    IN IF gap < 0 \/ gap <= maxMergeDistance_
       THEN LET extension == ToSigned(UAdd(ToUnsigned(gap), second.length))
            IN [err |-> FALSE, merged |-> TRUE,
                first |-> [first EXCEPT !.length = UAdd(first.length, ToUnsigned(extension))],
                over |-> IF hasStats /\ gap > 0 THEN gap ELSE 0]
       ELSE [err |-> FALSE, merged |-> FALSE, first |-> first, over |-> 0]

(* tryMerge(first, second): whether merged, the new first, the over-read reported *)
tryMerge(first, second) ==
  IF ~(second.offset >= first.offset)
  THEN [err |-> TRUE, merged |-> FALSE, first |-> first, over |-> 0]
  ELSE
    LET gap == ToSigned(USub(USub(second.offset, first.offset), first.length))
    IN IF gap < 0 \/ gap <= maxMergeDistance_
       THEN LET extension == ToSigned(UAdd(ToUnsigned(gap), second.length))
            IN IF extension > 0
               THEN [err |-> FALSE, merged |-> TRUE,
                     first |-> [first EXCEPT !.length = UAdd(first.length, ToUnsigned(extension))],
                     over |-> IF hasStats /\ gap > 0 THEN gap ELSE 0]
               ELSE [err |-> FALSE, merged |-> TRUE, first |-> first, over |-> 0]
       ELSE [err |-> FALSE, merged |-> FALSE, first |-> first, over |-> 0]

(* the loop of mergeRegions: r is modified in place, ia is the write index *)
RECURSIVE MergeLoop(_, _, _, _)
MergeLoop(r, ia, ib, over) ==
  IF ib > Len(r) THEN [err |-> FALSE, r |-> SubSeq(r, 1, ia), over |-> over]
  ELSE IF ~(r[ib].length > 0) THEN [err |-> TRUE, r |-> r, over |-> over]
  ELSE LET m == tryMerge(r[ia], r[ib])
       IN IF m.err THEN [err |-> TRUE, r |-> r, over |-> over]
          ELSE IF m.merged
          THEN MergeLoop([r EXCEPT ![ia] = m.first], ia, ib + 1, over + m.over)
          ELSE MergeLoop([r EXCEPT ![ia + 1] = r[ib]], ia + 1, ib + 1, over)

mergeRegions(r) ==
  IF r = <<>> \/ ~(r[1].length > 0) THEN [err |-> TRUE, r |-> r, over |-> 0]
  ELSE MergeLoop(r, 1, 2, 0)

(* std::lower_bound in its place: number of leading elements < offset *)
RECURSIVE UpperBoundStrict(_, _)
UpperBoundStrict(offs, offset) ==
  IF offs = <<>> \/ offset <= Head(offs) THEN 0
  ELSE 1 + UpperBoundStrict(Tail(offs), offset)

(* std::upper_bound(offsets_.cbegin(), offsets_.cend(), offset): number of *)
(* leading elements that are <= offset (offsets_ is sorted)                *)
RECURSIVE UpperBound(_, _)
UpperBound(offs, offset) ==
  IF offs = <<>> \/ offset < Head(offs) THEN 0
  ELSE 1 + UpperBound(Tail(offs), offset)

(* result of readInternal: (nullptr, MAX_UINT64) *)
Sentinel == [err |-> FALSE, null |-> TRUE, index |-> 0, start |-> 0, size |-> MAX_UINT64]

(* readInternal with the coverage test >, not >= *)
readInternalOnStrict(offs, bufs, offset, length) ==
  IF length = 0 THEN [err |-> FALSE, null |-> TRUE, index |-> 0, start |-> 0, size |-> 0]
  ELSE
    LET it == UpperBound(offs, offset)
    IN IF it # 0
       THEN LET index == it
                bufferOffset == offs[index]
                buffer == bufs[index]
            IN IF UAdd(bufferOffset, buffer.size) > UAdd(offset, length)
               THEN [err |-> FALSE, null |-> FALSE, index |-> index,
                     start |-> USub(offset, bufferOffset), size |-> length]
               ELSE Sentinel
       ELSE Sentinel

(* readInternal(offset, length) against an index (offs, bufs): the tuple   *)
(* (buffer.data() + start, size), or err when a DWIO_ENSURE throws         *)
readInternalOn(offs, bufs, offset, length) ==
  IF length = 0 THEN [err |-> FALSE, null |-> TRUE, index |-> 0, start |-> 0, size |-> 0]
  ELSE
    LET it == UpperBound(offs, offset)
    IN IF it # 0
       THEN LET index == it
                bufferOffset == offs[index]
                buffer == bufs[index]
            IN IF UAdd(bufferOffset, buffer.size) >= UAdd(offset, length)
               THEN IF ~(bufferOffset <= offset)
                       \/ ~(UAdd(USub(offset, bufferOffset), length) <= buffer.size)
                    THEN [err |-> TRUE, null |-> TRUE, index |-> 0, start |-> 0, size |-> 0]
                    ELSE [err |-> FALSE, null |-> FALSE, index |-> index,
                          start |-> USub(offset, bufferOffset), size |-> length]
               ELSE Sentinel
       ELSE Sentinel

readInternal(offset, length) == readInternalOn(offsets_, buffers_, offset, length)

(* the bytes behind a span (buffer.data() + start, size); memory past the  *)
(* buffer's end has unknown contents                                       *)
SpanData(buffer, start, size) ==
  [i \in 1..size |-> IF start + i <= Len(buffer.data) THEN buffer.data[start + i] ELSE Uninit]

(* readBuffer(offset, length): a stream over the span, or none *)
readBuffer(offset, length) ==
  LET result == readInternal(offset, length)
  IN IF result.err THEN [err |-> TRUE, some |-> FALSE, data |-> <<>>]
     ELSE IF result.size = MAX_UINT64 THEN [err |-> FALSE, some |-> FALSE, data |-> <<>>]
     ELSE [err |-> FALSE, some |-> TRUE,
           data |-> IF result.null THEN <<>>
                    ELSE SpanData(buffers_[result.index], result.start, result.size)]

(* ---- streams handed to the consumer ---- *)
NotRead == [read |-> FALSE, err |-> FALSE, bytes |-> <<>>]
Got(bytes) == [read |-> TRUE, err |-> FALSE, bytes |-> bytes]
GotError == [read |-> TRUE, err |-> TRUE, bytes |-> <<>>]

Stream(kind, offset, length, data) ==
  [kind |-> kind, offset |-> offset, length |-> length, data |-> data,
   dangling |-> FALSE, got |-> NotRead]

(* what reading memory yields: the byte stored there, or, for memory that  *)
(* was never written or has been freed, whatever happens to be there       *)
MemoryOutcomes(data, offset, invalid) ==
  { [i \in 1..Len(data) |->
       IF invalid \/ data[i] = Uninit
       THEN (IF lucky THEN FileByte(offset + i - 1) ELSE Junk)
       ELSE data[i]] : lucky \in BOOLEAN }

FilledBuffer(region) ==
  [size |-> region.length, data |-> FileBytes(region.offset, region.length)]
UnfilledBuffer(region) ==
  [size |-> region.length, data |-> [i \in 1..region.length |-> Uninit]]

(* no direct call has been set up *)
NoProbe == [fn |-> "none", args |-> <<>>, done |-> FALSE, res |-> <<>>, stream |-> <<>>]

(* enqueue that pushes the region before it tests for length zero *)
EnqueueZeroPushed(offset, length, keep) ==
  LET region == Region(offset, length)
      held == IF loadResult # "none" THEN <<>> ELSE streams
      give(s) == IF keep /\ held = <<>> THEN <<s>> ELSE held
      ret == readBuffer(offset, length)
  IN /\ IF length = 0
        THEN /\ streams' = give(Stream("empty", offset, length, <<>>))
             /\ regions_' = Append(regions_, region)
        ELSE IF ret.err
        THEN UNCHANGED <<regions_, streams>>
        ELSE IF ret.some
        THEN /\ streams' = give(Stream("ready", offset, length, ret.data))
             /\ UNCHANGED regions_
        ELSE /\ regions_' = Append(regions_, region)
             /\ streams' = give(Stream("lazy", offset, length, <<>>))
     /\ loadResult' = "none"
     /\ sortedInput' = <<>>
     /\ backendCalls' = <<>>
     /\ overreadReported' = 0
     /\ enqueueOrder' = <<>>
     /\ UNCHANGED <<maxMergeDistance_, wsVRLoad_, hasStats, offsets_, buffers_, probe>>
     /\ UNCHANGED pfVars

(* ---- BufferedInput::enqueue ---- *)
Enqueue(offset, length, keep) ==
  LET region == Region(offset, length)
      held == IF loadResult # "none" THEN <<>> ELSE streams
      give(s) == IF keep /\ held = <<>> THEN <<s>> ELSE held
      ret == readBuffer(offset, length)
  IN /\ IF length = 0
        THEN /\ streams' = give(Stream("empty", offset, length, <<>>))
             /\ UNCHANGED regions_
        ELSE IF ret.err
        THEN UNCHANGED <<regions_, streams>>
        ELSE IF ret.some
        THEN /\ streams' = give(Stream("ready", offset, length, ret.data))
             /\ UNCHANGED regions_
        ELSE /\ regions_' = Append(regions_, region)
             /\ streams' = give(Stream("lazy", offset, length, <<>>))
     /\ loadResult' = "none"
     /\ sortedInput' = <<>>
     /\ backendCalls' = <<>>
     /\ overreadReported' = 0
     /\ enqueueOrder' = <<>>
     /\ UNCHANGED <<maxMergeDistance_, wsVRLoad_, hasStats, offsets_, buffers_, probe>>
     /\ UNCHANGED pfVars

(* scalar mode with the loop running from the last region to the first *)
ScalarCallsReversed(r, cnt) ==
  [k \in 1..cnt |->
     [op |-> "read", buffers |-> 1,
      regions |-> <<Region(r[Len(r) + 1 - k].offset, r[Len(r) + 1 - k].length)>>]]

(* scalar mode with each read given (buf, offset, length) *)
ScalarCallsSwapped(r, cnt) ==
  [k \in 1..cnt |->
     [op |-> "read", buffers |-> 1, regions |-> <<Region(r[k].length, r[k].offset)>>]]

(* scalar mode: loadWithAction calls input_->read(buf, length, offset, type) *)
(* for the first cnt regions, in the order of regions_                       *)
ScalarCalls(r, cnt) ==
  [k \in 1..cnt |->
     [op |-> "read", buffers |-> 1, regions |-> <<Region(r[k].offset, r[k].length)>>]]

(* vectored mode with vread called from inside the loop, once per region *)
VectoredCallsPerRegion(r) ==
  [k \in 1..Len(r) |-> [op |-> "vread", buffers |-> 1, regions |-> <<r[k]>>]]

(* vectored mode: loadWithAction collects buffers and regions, then one    *)
(* input_->vread(buffers, regions, logType)                                *)
VectoredCalls(r) ==
  <<[op |-> "vread", buffers |-> Len(r), regions |-> r]>>

(* a vector that load does not clear *)
NotCleared(v) == v

(* offsets_.clear(); buffers_.clear() *)
Cleared(v) == <<>>

(* load without the early return: the index is cleared and mergeRegions   *)
(* throws on the empty regions_                                            *)
LoadEmptyClears(failAt, filled) ==
  /\ failAt = 0 /\ filled = {}
  /\ UNCHANGED pfVars
  /\ offsets_' = <<>>
  /\ buffers_' = <<>>
  /\ streams' = [k \in 1..Len(streams) |->
                   IF streams[k].kind = "ready"
                   THEN [streams[k] EXCEPT !.dangling = TRUE] ELSE streams[k]]
  /\ loadResult' = "error"
  /\ sortedInput' = <<>>
  /\ backendCalls' = <<>>
  /\ overreadReported' = 0
  /\ enqueueOrder' = <<>>
  /\ UNCHANGED <<maxMergeDistance_, wsVRLoad_, hasStats, regions_, probe>>

(* load with no regions to load: return *)
LoadEmpty(failAt, filled) ==
  /\ failAt = 0 /\ filled = {}
  /\ UNCHANGED pfVars
  /\ loadResult' = "noop"
  /\ sortedInput' = <<>>
  /\ backendCalls' = <<>>
  /\ overreadReported' = 0
  /\ enqueueOrder' = <<>>
  /\ UNCHANGED <<maxMergeDistance_, wsVRLoad_, hasStats, regions_, offsets_,
                 buffers_, streams, probe>>

(* ---- BufferedInput::load, with the backend failing at its failAt-th     *)
(* call (0: no failure); filled: the buffers a failing vread had filled    *)
LoadStep(failAt, filled) ==
  IF Len(regions_) = 0
  THEN LoadEmpty(failAt, filled)
  ELSE
    \E sorted \in {SortRegions(regions_)} : \E m \in {mergeRegions(sorted)} :
    LET n == Len(m.r)
        cnt == IF wsVRLoad_ \/ failAt = 0 THEN n ELSE failAt
        isFilled(k) == IF wsVRLoad_ THEN (failAt = 0 \/ k \in filled)
                       ELSE (failAt = 0 \/ k < failAt)
    IN /\ streams' = [k \in 1..Len(streams) |->
                        IF streams[k].kind = "ready"
                        THEN [streams[k] EXCEPT !.dangling = TRUE] ELSE streams[k]]
       /\ sortedInput' = sorted
       /\ enqueueOrder' = regions_
       /\ overreadReported' = m.over
       /\ UNCHANGED <<maxMergeDistance_, wsVRLoad_, hasStats, probe>>
       /\ UNCHANGED pfVars
       /\ IF m.err
          THEN /\ failAt = 0 /\ filled = {}
               /\ regions_' = m.r
               /\ offsets_' = Cleared(offsets_)
               /\ buffers_' = Cleared(buffers_)
               /\ backendCalls' = <<>>
               /\ loadResult' = "error"
          ELSE /\ IF wsVRLoad_
                  THEN /\ failAt \in {0, 1}
                       /\ filled \subseteq 1..n
                       /\ (failAt = 0 => filled = {})
                       /\ backendCalls' = VectoredCalls(m.r)
                  ELSE /\ failAt \in 0..n
                       /\ filled = {}
                       /\ backendCalls' = ScalarCalls(m.r, cnt)
               /\ offsets_' = Cleared(offsets_) \o [k \in 1..cnt |-> m.r[k].offset]
               /\ buffers_' = Cleared(buffers_) \o
                                 [k \in 1..cnt |->
                                    IF isFilled(k) THEN FilledBuffer(m.r[k])
                                    ELSE UnfilledBuffer(m.r[k])]
               /\ regions_' = IF failAt = 0 THEN <<>> ELSE m.r
               /\ loadResult' = IF failAt = 0 THEN "ok" ELSE "failed"

Load == LoadStep(0, {})

(* load with the backend failing: read fails at the failAt-th merged region, *)
(* or vread fails having filled any subset of the buffers                   *)
LoadBackendFailure ==
  /\ Len(regions_) > 0
  /\ LET n == Len(mergeRegions(SortRegions(regions_)).r)
     IN IF wsVRLoad_
        THEN \E filled \in SUBSET (1..n) : LoadStep(1, filled)
        ELSE \E failAt \in 1..n : LoadStep(failAt, {})

(* ---- the consumer reads a stream it holds ---- *)
ReadStream(k) ==
  /\ k \in 1..Len(streams)
  /\ loadResult # "none"
  /\ ~streams[k].got.read
  /\ LET s == streams[k]
         r == readInternal(s.offset, s.length)
     IN \E got \in
          (IF s.kind = "empty" THEN {Got(<<>>)}
           ELSE IF s.kind = "ready"
           THEN {Got(b) : b \in MemoryOutcomes(s.data, s.offset, s.dangling)}
           ELSE IF r.err \/ r.size = MAX_UINT64 THEN {GotError}
           ELSE {Got(b) : b \in MemoryOutcomes(
                    SpanData(buffers_[r.index], r.start, r.size), s.offset, FALSE)}) :
          streams' = [streams EXCEPT ![k].got = got]
  /\ UNCHANGED <<maxMergeDistance_, wsVRLoad_, hasStats, regions_, offsets_, buffers_,
                 loadResult, sortedInput, backendCalls, overreadReported,
                 enqueueOrder, probe>>
  /\ UNCHANGED pfVars

(* no ParallelFor in use *)
PFIdle ==
  /\ pfIn = [from |-> 0, to |-> 0, factor |-> 0, mode |-> "INDEX", wait |-> TRUE,
             blocks |-> FALSE, threads |-> 0]
  /\ pc = "idle"
  /\ ranges_ = <<>>
  /\ tasks = <<>>
  /\ count_ = 0
  /\ indexInvoked = <<>>
  /\ outOfBounds = FALSE
  /\ added = 0
  /\ executed = 0
  /\ released = FALSE

Init ==
  /\ maxMergeDistance_ \in 0..MaxMergeDistance
  /\ wsVRLoad_ \in BOOLEAN
  /\ hasStats = TRUE
  /\ regions_ = <<>>
  /\ offsets_ = <<>>
  /\ buffers_ = <<>>
  /\ streams = <<>>
  /\ loadResult = "none"
  /\ sortedInput = <<>>
  /\ backendCalls = <<>>
  /\ overreadReported = 0
  /\ enqueueOrder = <<>>
  /\ probe = NoProbe
  /\ PFIdle

(* the model stops enqueueing once cap regions are pending *)
RoomFor(cap, offset, length) ==
  length = 0 \/ readBuffer(offset, length).some \/ Len(regions_) < cap

(* an unreliable backend; the consumer's streams are not followed *)
Next ==
  \/ \E offset \in 0..MaxOffset, length \in 0..MaxLen :
       RoomFor(MaxPending, offset, length) /\ Enqueue(offset, length, FALSE)
  \/ Load
  \/ LoadBackendFailure

Spec == Init /\ [][Next]_vars

(* a reliable backend; the consumer keeps one stream of a cycle and reads it *)
NextStreams ==
  \/ \E offset \in 0..StreamMaxOffset, length \in 0..StreamMaxLen,
        keep \in (IF streams = <<>> \/ loadResult # "none" THEN BOOLEAN ELSE {FALSE}) :
       RoomFor(StreamMaxPending, offset, length) /\ Enqueue(offset, length, keep)
  \/ Load
  \/ ReadStream(1)

SpecStreams == Init /\ [][NextStreams]_vars

(* one load of a freshly constructed BufferedInput on which any list of    *)
(* regions has been enqueued (the index is empty, so every enqueue appends) *)
LoadRegions ==
  {r \in {Region(o, l) : o \in 0..LoadMaxEnd, l \in 1..LoadMaxEnd} :
     r.offset + r.length <= LoadMaxEnd}

RECURSIVE SeqsUpTo(_, _)
SeqsUpTo(S, n) ==
  IF n = 0 THEN {<<>>}
  ELSE LET shorter == SeqsUpTo(S, n - 1)
       IN shorter \cup {Append(q, x) : q \in {t \in shorter : Len(t) = n - 1}, x \in S}

InitLoad ==
  /\ maxMergeDistance_ \in 0..MaxMergeDistance
  /\ wsVRLoad_ = FALSE
  /\ hasStats \in BOOLEAN
  /\ regions_ \in SeqsUpTo(LoadRegions, LoadMaxPending) \ {<<>>}
  /\ offsets_ = <<>>
  /\ buffers_ = <<>>
  /\ streams = <<>>
  /\ loadResult = "none"
  /\ sortedInput = <<>>
  /\ backendCalls = <<>>
  /\ overreadReported = 0
  /\ enqueueOrder = <<>>
  /\ probe = NoProbe
  /\ PFIdle

NextLoad == Load

SpecLoad == InitLoad /\ [][NextLoad]_vars

(* tryMerge called directly on any two regions of positive length *)
MergeRegions ==
  {Region(o, l) : o \in 0..MergeMaxOffset, l \in 1..MergeMaxLen}

InitMerge ==
  /\ maxMergeDistance_ \in 0..MaxMergeDistance
  /\ wsVRLoad_ = FALSE
  /\ hasStats \in BOOLEAN
  /\ regions_ = <<>>
  /\ offsets_ = <<>>
  /\ buffers_ = <<>>
  /\ streams = <<>>
  /\ loadResult = "none"
  /\ sortedInput = <<>>
  /\ backendCalls = <<>>
  /\ overreadReported = 0
  /\ enqueueOrder = <<>>
  /\ \E first \in MergeRegions, second \in MergeRegions :
       probe = [NoProbe EXCEPT !.fn = "tryMerge", !.args = <<first, second>>]
  /\ PFIdle

TryMergeCall ==
  /\ probe.fn = "tryMerge"
  /\ ~probe.done
  /\ probe' = [probe EXCEPT !.done = TRUE,
                            !.res = tryMerge(probe.args[1], probe.args[2])]
  /\ UNCHANGED <<maxMergeDistance_, wsVRLoad_, hasStats, regions_, offsets_, buffers_,
                 streams, loadResult, sortedInput, backendCalls, overreadReported,
                 enqueueOrder>>
  /\ UNCHANGED pfVars

NextMerge == TryMergeCall

SpecMerge == InitMerge /\ [][NextMerge]_vars

(* one or two regions are enqueued on a fresh BufferedInput and loaded;    *)
(* readInternal and readBuffer are then called with any uint64_t request   *)
(* near 0 or near MAX_UINT64                                               *)
ReadRegions ==
  {r \in {Region(o, l) : o \in 0..ReadMaxEnd, l \in 1..ReadMaxEnd} :
     r.offset + r.length <= ReadMaxEnd}

ProbeValues == (0..ProbeSpan) \cup ((MAX_UINT64 - ProbeSpan)..MAX_UINT64)

InitRead ==
  /\ maxMergeDistance_ = 0
  /\ wsVRLoad_ = FALSE
  /\ hasStats = FALSE
  /\ regions_ \in {<<r>> : r \in ReadRegions}
                  \cup {<<r, s>> : r \in ReadRegions, s \in ReadRegions}
  /\ offsets_ = <<>>
  /\ buffers_ = <<>>
  /\ streams = <<>>
  /\ loadResult = "none"
  /\ sortedInput = <<>>
  /\ backendCalls = <<>>
  /\ overreadReported = 0
  /\ enqueueOrder = <<>>
  /\ probe = NoProbe
  /\ PFIdle

ReadInternalCall(offset, length) ==
  /\ loadResult = "ok"
  /\ ~probe.done
  /\ probe' = [fn |-> "readInternal", args |-> <<offset, length>>, done |-> TRUE,
               res |-> readInternal(offset, length),
               stream |-> readBuffer(offset, length)]
  /\ UNCHANGED <<maxMergeDistance_, wsVRLoad_, hasStats, regions_, offsets_, buffers_,
                 streams, loadResult, sortedInput, backendCalls, overreadReported,
                 enqueueOrder>>
  /\ UNCHANGED pfVars

NextRead ==
  \/ Load
  \/ \E offset \in ProbeValues, length \in ProbeValues : ReadInternalCall(offset, length)

SpecRead == InitRead /\ [][NextRead]_vars

(* ======================= ParallelFor ======================= *)

Min(a, b) == IF a < b THEN a ELSE b

(* the sub-ranges: min(parallelismFactor, to - from) contiguous ranges of  *)
(* [from, to) whose sizes differ by at most one; one range when that is 0  *)
(* and there is work                                                       *)
splitRange(from, to, factor) ==
  LET size == to - from
      d == Min(factor, size)
      num == IF d >= 1 THEN d ELSE IF size > 0 THEN 1 ELSE 0
      base == IF num = 0 THEN 0 ELSE size \div num
      extra == IF num = 0 THEN 0 ELSE size % num
      start(k) == from + (k - 1) * base + Min(k - 1, extra)
  IN [k \in 1..num |-> [begin |-> start(k), end |-> start(k + 1)]]

(* the indices one sub-range task passes to the user function:             *)
(* INDEX mode, the loop of ParallelFor over its sub-range                  *)
IndexLoopIndices(begin, end) == begin..(end - 1)

(* RANGE mode with the loop one too far *)
RangeFnIndicesInclusive(begin, end) == begin..end

(* RANGE mode, the loop of the test's function: for (i = begin; i < end; ++i) *)
RangeFnIndices(begin, end) == begin..(end - 1)

TaskIndices(t) ==
  IF pfIn.mode = "INDEX" THEN IndexLoopIndices(t.begin, t.end)
  ELSE RangeFnIndices(t.begin, t.end)

(* the test's function body, with the increment lost *)
InvokeNoIncrement(map, i) == map

(* the test's function body: find(i), then ++it->second *)
Invoke(map, i) == IF i \in DOMAIN map THEN [map EXCEPT ![i] = @ + 1] ELSE map

(* CountingExecutor::add without ++count_ *)
CountingAddForgets(count) == count

(* CountingExecutor::add: executor_.add(f); ++count_ *)
CountingAdd(count) == count + 1

(* the NoWait function never let through *)
FnMayProceedNever(blocks, rel) == ~blocks

(* the NoWait function: cv.wait(lock, [&] { return !wait; }) *)
FnMayProceed(blocks, rel) == ~blocks \/ rel

Task(r, st, onCaller) ==
  [begin |-> r.begin, end |-> r.end, next |-> r.begin, st |-> st,
   entered |-> FALSE, onCaller |-> onCaller]

AllDone == \A t \in 1..Len(tasks) : tasks[t].st = "done"

(* the constructor without the from <= to check *)
ConstructUnchecked ==
  /\ pc = "new"
  /\ pc' = "ready"
  /\ ranges_' = splitRange(pfIn.from, pfIn.to, pfIn.factor)
  /\ UNCHANGED <<pfIn, tasks, count_, indexInvoked, outOfBounds, added, executed, released>>
  /\ UNCHANGED biVars

(* ParallelFor(executor, from, to, parallelismFactor) *)
Construct ==
  /\ pc = "new"
  /\ IF pfIn.from > pfIn.to
     THEN /\ pc' = "error"
          /\ UNCHANGED ranges_
     ELSE /\ pc' = "ready"
          /\ ranges_' = splitRange(pfIn.from, pfIn.to, pfIn.factor)
  /\ UNCHANGED <<pfIn, tasks, count_, indexInvoked, outOfBounds, added, executed, released>>
  /\ UNCHANGED biVars

(* execute with at most one sub-range: the caller runs it itself *)
ExecuteInline ==
  /\ pc = "ready"
  /\ Len(ranges_) <= 1
  /\ tasks' = [k \in 1..Len(ranges_) |-> Task(ranges_[k], "running", TRUE)]
  /\ pc' = "waiting"
  /\ UNCHANGED <<pfIn, ranges_, count_, indexInvoked, outOfBounds, added, executed, released>>
  /\ UNCHANGED biVars

(* execute with several sub-ranges: the next one goes to the executor; the *)
(* inline executor (threads = 0) runs it inside add                        *)
Submit ==
  /\ pc \in {"ready", "submitting"}
  /\ Len(ranges_) > 1
  /\ Len(tasks) < Len(ranges_)
  /\ (pfIn.threads = 0 => AllDone)
  /\ tasks' = Append(tasks, Task(ranges_[Len(tasks) + 1],
                                 IF pfIn.threads = 0 THEN "running" ELSE "queued", FALSE))
  /\ count_' = CountingAdd(count_)
  /\ pc' = "submitting"
  /\ UNCHANGED <<pfIn, ranges_, indexInvoked, outOfBounds, added, executed, released>>
  /\ UNCHANGED biVars

(* every sub-range is submitted: wait for them, or return at once *)
Submitted ==
  /\ pc = "submitting"
  /\ Len(tasks) = Len(ranges_)
  /\ (pfIn.threads = 0 => AllDone)
  /\ pc' = IF pfIn.wait THEN "waiting" ELSE "returned"
  /\ UNCHANGED <<pfIn, ranges_, tasks, count_, indexInvoked, outOfBounds, added, executed,
                 released>>
  /\ UNCHANGED biVars

(* a thread of the pool takes a queued task *)
Start(t) ==
  /\ t \in 1..Len(tasks)
  /\ tasks[t].st = "queued"
  /\ Cardinality({u \in 1..Len(tasks) : tasks[u].st = "running"}) < pfIn.threads
  /\ tasks' = [tasks EXCEPT ![t].st = "running"]
  /\ UNCHANGED <<pfIn, pc, ranges_, count_, indexInvoked, outOfBounds, added, executed,
                 released>>
  /\ UNCHANGED biVars

(* a task enters the user function for its next index *)
Enter(t) ==
  /\ t \in 1..Len(tasks)
  /\ tasks[t].st = "running"
  /\ ~tasks[t].entered
  /\ tasks' = [tasks EXCEPT ![t].entered = TRUE]
  /\ added' = added + 1
  /\ UNCHANGED <<pfIn, pc, ranges_, count_, indexInvoked, outOfBounds, executed, released>>
  /\ UNCHANGED biVars

(* the user function finishes for that index *)
Leave(t) ==
  /\ t \in 1..Len(tasks)
  /\ tasks[t].st = "running"
  /\ tasks[t].entered
  /\ FnMayProceed(pfIn.blocks, released)
  /\ LET i == tasks[t].next
     IN /\ indexInvoked' = Invoke(indexInvoked, i)
        /\ outOfBounds' = (outOfBounds \/ i \notin DOMAIN indexInvoked)
        /\ tasks' = [tasks EXCEPT ![t].entered = FALSE,
                                  ![t].next = i + 1,
                                  ![t].st = IF (i + 1) \in TaskIndices(tasks[t])
                                            THEN "running" ELSE "done"]
  /\ executed' = executed + 1
  /\ UNCHANGED <<pfIn, pc, ranges_, count_, added, released>>
  /\ UNCHANGED biVars

(* execute returns once every sub-range has completed *)
Return ==
  /\ pc = "waiting"
  /\ AllDone
  /\ pc' = "returned"
  /\ UNCHANGED <<pfIn, ranges_, tasks, count_, indexInvoked, outOfBounds, added, executed,
                 released>>
  /\ UNCHANGED biVars

(* NoWait: after execute has returned the caller sets wait = false *)
Release ==
  /\ pc = "returned"
  /\ ~released
  /\ released' = TRUE
  /\ UNCHANGED <<pfIn, pc, ranges_, tasks, count_, indexInvoked, outOfBounds, added,
                 executed>>
  /\ UNCHANGED biVars

BIIdle ==
  /\ maxMergeDistance_ = 0
  /\ wsVRLoad_ = FALSE
  /\ hasStats = FALSE
  /\ regions_ = <<>>
  /\ offsets_ = <<>>
  /\ buffers_ = <<>>
  /\ streams = <<>>
  /\ loadResult = "none"
  /\ sortedInput = <<>>
  /\ backendCalls = <<>>
  /\ overreadReported = 0
  /\ enqueueOrder = <<>>
  /\ probe = NoProbe

(* testParallelFor(executor, from, to, parallelismFactor, mode), and       *)
(* NoWait's blocking function; threads = 0 is the inline executor          *)
InitPF ==
  /\ BIIdle
  /\ pfIn \in [from : 0..PFMaxIndex, to : 0..PFMaxIndex, factor : 0..PFMaxFactor,
               mode : {"INDEX", "RANGE"}, wait : BOOLEAN, blocks : BOOLEAN,
               threads : 0..PFMaxThreads]
  /\ pc = "new"
  /\ ranges_ = <<>>
  /\ tasks = <<>>
  /\ count_ = 0
  /\ indexInvoked = [i \in {j \in 0..PFMaxIndex : pfIn.from <= j /\ j < pfIn.to} |-> 0]
  /\ outOfBounds = FALSE
  /\ added = 0
  /\ executed = 0
  /\ released = FALSE

NextPF ==
  \/ Construct
  \/ ExecuteInline
  \/ Submit
  \/ Submitted
  \/ \E t \in 1..(PFMaxIndex + 1) : Start(t)
  \/ \E t \in 1..(PFMaxIndex + 1) : Enter(t)
  \/ \E t \in 1..(PFMaxIndex + 1) : Leave(t)
  \/ Return
  \/ Release

SpecPF == InitPF /\ [][NextPF]_vars

(* the caller's thread and the executor's threads keep running *)
FairSpecPF ==
  /\ SpecPF
  /\ WF_vars(Construct) /\ WF_vars(ExecuteInline) /\ WF_vars(Submit)
  /\ WF_vars(Submitted) /\ WF_vars(Return)
  /\ \A t \in 1..(PFMaxIndex + 1) :
       WF_vars(Start(t)) /\ WF_vars(Enter(t)) /\ WF_vars(Leave(t))

(* ======================= claims ======================= *)

Ends(r) == r.offset + r.length
IndexEntry(k) == Region(offsets_[k], buffers_[k].size)
Inside(r, outer) == outer.offset <= r.offset /\ Ends(r) <= Ends(outer)
Loaded == loadResult \in {"ok", "noop"}

RECURSIVE SumSeq(_)
SumSeq(q) == IF q = <<>> THEN 0 ELSE Head(q) + SumSeq(Tail(q))

(* C1: after the load of a cycle has returned, every stream enqueue        *)
(* returned in that cycle for a region of length > 0 reads back exactly    *)
(* the file bytes of its region                                            *)
C1_Coverage ==
  Loaded =>
    \A k \in 1..Len(streams) :
      (streams[k].length > 0 /\ streams[k].got.read) =>
        /\ ~streams[k].got.err
        /\ streams[k].got.bytes = FileBytes(streams[k].offset, streams[k].length)

(* C2: the index is in strictly increasing offset order and consecutive    *)
(* entries are more than maxMergeDistance apart                            *)
C2_Disjoint ==
  /\ Len(offsets_) = Len(buffers_)
  /\ \A i \in 1..(Len(offsets_) - 1) :
       /\ offsets_[i] < offsets_[i + 1]
       /\ offsets_[i + 1] - (offsets_[i] + buffers_[i].size) > maxMergeDistance_

C2_Witness ==
  /\ loadResult = "ok"
  /\ Len(offsets_) >= 2
  /\ offsets_[2] - (offsets_[1] + buffers_[1].size) = maxMergeDistance_ + 1

(* C3: two regions adjacent in the sorted input whose gap is at most       *)
(* maxMergeDistance (negative included) lie in the same index entry        *)
C3_Minimality ==
  loadResult = "ok" =>
    \A i \in 1..(Len(sortedInput) - 1) :
      LET a == sortedInput[i]
          b == sortedInput[i + 1]
      IN (b.offset - Ends(a) <= maxMergeDistance_) =>
           \E k \in 1..Len(offsets_) :
             Inside(a, IndexEntry(k)) /\ Inside(b, IndexEntry(k))

C3_Witness ==
  /\ loadResult = "ok"
  /\ Len(sortedInput) = 3
  /\ Len(offsets_) = 1
  /\ sortedInput[2].offset - Ends(sortedInput[1]) < 0
  /\ sortedInput[3].offset - Ends(sortedInput[2]) = maxMergeDistance_
  /\ maxMergeDistance_ > 0

(* the gaps of the pairs adjacent in the sorted input that lie in one      *)
(* index entry and have a positive gap between them                        *)
NeighbourGaps ==
  [i \in 1..(Len(sortedInput) - 1) |->
     LET a == sortedInput[i]
         b == sortedInput[i + 1]
     IN IF b.offset - Ends(a) > 0
           /\ \E k \in 1..Len(offsets_) :
                Inside(a, IndexEntry(k)) /\ Inside(b, IndexEntry(k))
        THEN b.offset - Ends(a) ELSE 0]

(* C4, as claimed: the over-read reported in one load is the sum of the    *)
(* positive gaps between merged pairs adjacent in the sorted input         *)
C4_NeighbourGapSum ==
  (loadResult = "ok" /\ hasStats) => overreadReported = SumSeq(NeighbourGaps)

(* the furthest end of the regions before position i of the sorted input   *)
(* that lie in the index entry of region i                                 *)
RunEnd(i) ==
  LET k == CHOOSE j \in 1..Len(offsets_) : Inside(sortedInput[i], IndexEntry(j))
      before == {Ends(sortedInput[j]) : j \in {h \in 1..(i - 1) :
                    Inside(sortedInput[h], IndexEntry(k))}}
  IN IF before = {} THEN sortedInput[i].offset
     ELSE CHOOSE e \in before : \A f \in before : f <= e

RunGaps ==
  [i \in 1..Len(sortedInput) |->
     IF sortedInput[i].offset - RunEnd(i) > 0
     THEN sortedInput[i].offset - RunEnd(i) ELSE 0]

RequestedBytes ==
  UNION {Ends(sortedInput[i]) - sortedInput[i].length .. Ends(sortedInput[i]) - 1 :
           i \in 1..Len(sortedInput)}

BufferedBytes ==
  UNION {offsets_[k] .. (offsets_[k] + buffers_[k].size - 1) : k \in 1..Len(offsets_)}

(* C4, amended: the over-read reported in one load is the sum, over the    *)
(* regions of the sorted input, of the positive gap between the furthest   *)
(* end of the earlier regions of the same merged region and the region's   *)
(* offset; it is the number of buffered bytes that no region asked for     *)
C4_RunGapSum ==
  (loadResult = "ok" /\ hasStats) =>
    /\ overreadReported = SumSeq(RunGaps)
    /\ overreadReported = Cardinality(BufferedBytes \ RequestedBytes)

C4_Witness ==
  /\ loadResult = "ok"
  /\ hasStats
  /\ overreadReported > 0
  /\ \E i \in 1..(Len(sortedInput) - 1) : sortedInput[i + 1].offset < Ends(sortedInput[i])

(* C5: a backend failure during load leaves no pending region and no       *)
(* index entry                                                             *)
C5_EmptyAfterFailure ==
  loadResult = "failed" => (regions_ = <<>> /\ offsets_ = <<>> /\ buffers_ = <<>>)

(* a region that lies within one entry of the index *)
CoveredByOneEntry(offset, length) ==
  \E k \in 1..Len(offsets_) : Inside(Region(offset, length), IndexEntry(k))

SliceOfIndex(offset, length) ==
  LET k == CHOOSE j \in 1..Len(offsets_) : Inside(Region(offset, length), IndexEntry(j))
  IN [i \in 1..length |-> buffers_[k].data[offset - offsets_[k] + i]]

(* a step of enqueue: it starts or continues a cycle *)
EnqueueStepFrame ==
  (loadResult' = "none") =>
    /\ offsets_' = offsets_
    /\ buffers_' = buffers_
    /\ \/ regions_' = regions_
       \/ /\ Len(regions_') = Len(regions_) + 1
          /\ SubSeq(regions_', 1, Len(regions_)) = regions_
          /\ regions_'[Len(regions_')].length > 0
          /\ ~CoveredByOneEntry(regions_'[Len(regions_')].offset,
                                regions_'[Len(regions_')].length)
    /\ (streams' # <<>> /\ streams' # streams /\ streams'[1].length > 0) =>
         LET st == streams'[1]
         IN IF CoveredByOneEntry(st.offset, st.length)
            THEN /\ st.kind = "ready"
                 /\ st.data = SliceOfIndex(st.offset, st.length)
                 /\ regions_' = regions_
            ELSE /\ st.kind = "lazy"
                 /\ regions_' = Append(regions_, Region(st.offset, st.length))

(* a step of load: the backend is asked only for merged regions that begin *)
(* and end with a pending region, and for nothing when none is pending     *)
LoadStepFrame ==
  (/\ loadResult' \in {"ok", "noop"}
   /\ <<regions_, offsets_, buffers_, loadResult, backendCalls>>'
        # <<regions_, offsets_, buffers_, loadResult, backendCalls>>) =>
    \A c \in 1..Len(backendCalls') :
      \A k \in 1..Len(backendCalls'[c].regions) :
        LET rd == backendCalls'[c].regions[k]
        IN /\ \E i \in 1..Len(regions_) : regions_[i].offset = rd.offset
           /\ \E i \in 1..Len(regions_) : Ends(regions_[i]) = Ends(rd)

(* C10: enqueue of a region covered by one index entry returns a ready     *)
(* stream over that slice and appends nothing; enqueue of a region that is *)
(* not covered appends exactly that region; the index is unchanged by      *)
(* both; a load reads only for regions that were appended                  *)
C10_FastPath == [][EnqueueStepFrame /\ LoadStepFrame]_vars

C10_Witness ==
  /\ loadResult = "none"
  /\ Len(regions_) = 1
  /\ streams # <<>>
  /\ streams[1].kind = "ready"
  /\ streams[1].offset > offsets_[1]
  /\ ~CoveredByOneEntry(regions_[1].offset, regions_[1].length)

Visits(i) == IF i \in DOMAIN indexInvoked THEN indexInvoked[i] ELSE 0
InRange(i) == pfIn.from <= i /\ i < pfIn.to
Degree == Min(pfIn.factor, pfIn.to - pfIn.from)

(* C6: no index is ever visited twice or outside [from, to), and when      *)
(* execute (wait = true) has returned each index of [from, to) has been    *)
(* visited exactly once                                                    *)
C6_Exactness ==
  /\ ~outOfBounds
  /\ \A i \in 0..PFMaxIndex : Visits(i) <= (IF InRange(i) THEN 1 ELSE 0)
  /\ (pc = "returned" /\ pfIn.wait) =>
       \A i \in 0..PFMaxIndex : Visits(i) = (IF InRange(i) THEN 1 ELSE 0)

C6_Witness ==
  /\ pc = "returned"
  /\ pfIn.wait
  /\ pfIn.mode = "RANGE"
  /\ pfIn.threads >= 2
  /\ Len(tasks) >= 2
  /\ pfIn.to - pfIn.from >= 3
  /\ \A i \in 0..PFMaxIndex : InRange(i) => Visits(i) = 1

(* C7: one execute call submits min(P, N) tasks to the executor when that  *)
(* is more than one, and none otherwise                                    *)
C7_DispatchCount ==
  /\ count_ <= (IF Degree > 1 THEN Degree ELSE 0)
  /\ pc = "returned" => count_ = (IF Degree > 1 THEN Degree ELSE 0)

C7_Witness ==
  /\ pc = "returned"
  /\ count_ >= 2
  /\ count_ < pfIn.factor

(* C8: with from > to ParallelFor fails with a runtime error, the user     *)
(* function is never invoked and no task is submitted                      *)
C8_Precondition ==
  (pfIn.from > pfIn.to /\ pc \notin {"idle", "new"}) =>
     /\ pc = "error"
     /\ tasks = <<>>
     /\ count_ = 0
     /\ added = 0
     /\ executed = 0
     /\ ~outOfBounds
     /\ \A i \in 0..PFMaxIndex : Visits(i) = 0

C8_Witness ==
  /\ pc = "error"
  /\ pfIn.from > pfIn.to
  /\ pfIn.factor > 1

(* C9: execute with wait = true returns only after every sub-range task    *)
(* has completed; execute returns only after every sub-range has been      *)
(* submitted, and with wait = false on a thread pool it does return;       *)
(* once the caller has released the tasks, every task eventually completes *)
C9_WaitSemantics ==
  /\ []((pc = "returned" /\ pfIn.wait) => AllDone)
  /\ [](pc = "returned" => Len(tasks) = Len(ranges_))
  /\ ((pc = "ready" /\ ~pfIn.wait /\ pfIn.threads > 0 /\ Len(ranges_) > 1)
        ~> (pc = "returned"))
  /\ (released ~> AllDone)

(* execute (wait = false) has returned; every task is inside the user      *)
(* function and none has finished                                          *)
C9_Witness ==
  /\ pc = "returned"
  /\ ~pfIn.wait
  /\ ~released
  /\ Len(tasks) >= 2
  /\ \A t \in 1..Len(tasks) : tasks[t].st = "running" /\ tasks[t].entered
  /\ added = Len(tasks)
  /\ executed = 0

(* ---- C11: zero-length enqueue ---- *)
NoEmptyRegionPending ==
  /\ \A i \in 1..Len(regions_) : regions_[i].length > 0
  /\ loadResult # "error"

(* a step that hands the consumer a stream of length 0 *)
ZeroLengthEnqueueFrame ==
  (/\ loadResult' = "none"
   /\ streams' # streams
   /\ streams' # <<>>
   /\ streams'[1].length = 0)
  => /\ streams'[1].kind = "empty"
     /\ streams'[1].data = <<>>
     /\ regions_' = regions_
     /\ offsets_' = offsets_
     /\ buffers_' = buffers_

(* C11: enqueue of a region of length 0 returns an empty stream and leaves *)
(* regions_, offsets_ and buffers_ as they were; no region of length 0 is  *)
(* ever in regions_, and no load ends in mergeRegions' "invalid region"    *)
C11_ZeroLengthEnqueue ==
  [](NoEmptyRegionPending) /\ [][ZeroLengthEnqueueFrame]_vars

C11_Witness ==
  /\ loadResult = "none"
  /\ streams # <<>>
  /\ streams[1].length = 0
  /\ streams[1].kind = "empty"
  /\ Len(regions_) >= 1
  /\ Len(offsets_) >= 1

(* ---- C12: load with nothing pending ---- *)
(* a step of load (not of enqueue, not of a stream read) taken with        *)
(* regions_ empty                                                          *)
EmptyLoadFrame ==
  (/\ regions_ = <<>>
   /\ loadResult' # "none"
   /\ <<regions_, offsets_, buffers_, loadResult, backendCalls>>'
        # <<regions_, offsets_, buffers_, loadResult, backendCalls>>)
  => /\ loadResult' \notin {"error", "failed"}
     /\ backendCalls' = <<>>
     /\ regions_' = regions_
     /\ offsets_' = offsets_
     /\ buffers_' = buffers_
     /\ streams' = streams

(* once a load has returned on empty regions_, a further load changes nothing *)
EmptyLoadAgain ==
  (/\ regions_ = <<>>
   /\ loadResult = "noop"
   /\ loadResult' # "none")
  => UNCHANGED <<regions_, offsets_, buffers_, loadResult, backendCalls>>

(* C12: load with no pending region calls no backend operation and leaves  *)
(* regions_, offsets_, buffers_ and the streams over them as they were;    *)
(* repeating it changes nothing                                            *)
C12_EmptyLoadNoOp == [][EmptyLoadFrame /\ EmptyLoadAgain]_vars

C12_Witness ==
  /\ loadResult = "noop"
  /\ Len(offsets_) >= 1
  /\ streams # <<>>
  /\ streams[1].kind = "ready"
  /\ ~streams[1].dangling
  /\ streams[1].got = Got(FileBytes(streams[1].offset, streams[1].length))

(* ---- C13: what a load that completes leaves behind ---- *)
(* the bytes in a hole of at most maxMergeDistance_ bytes between bytes    *)
(* that this cycle's pending regions asked for                             *)
SmallHoles ==
  {b \in BufferedBytes \cup UNION {lo..hi : lo \in RequestedBytes, hi \in RequestedBytes} :
     /\ b \notin RequestedBytes
     /\ \E lo \in RequestedBytes, hi \in RequestedBytes :
          lo < b /\ b < hi /\ hi - lo - 1 <= maxMergeDistance_}

(* C13: a load of N >= 1 pending regions that completes leaves regions_    *)
(* empty and an index of 1..N entries whose buffers are exactly the        *)
(* maximal runs of this cycle's requested bytes and small holes, each      *)
(* buffer of its entry's size and filled; nothing else is indexed          *)
C13_LoadPostcondition ==
  loadResult = "ok" =>
    /\ Len(sortedInput) >= 1
    /\ regions_ = <<>>
    /\ Len(offsets_) = Len(buffers_)
    /\ 1 <= Len(offsets_)
    /\ Len(offsets_) <= Len(sortedInput)
    /\ BufferedBytes = RequestedBytes \cup SmallHoles
    /\ \A k \in 1..Len(offsets_) :
         /\ buffers_[k].size >= 1
         /\ buffers_[k].data = FileBytes(offsets_[k], buffers_[k].size)
    /\ \A k \in 1..(Len(offsets_) - 1) :
         offsets_[k] + buffers_[k].size < offsets_[k + 1]

C13_Witness ==
  /\ loadResult = "ok"
  /\ Len(sortedInput) = 2
  /\ Len(offsets_) = 1
  /\ SmallHoles # {}
  /\ regions_ = <<>>

(* ---- C14: the merge rule of tryMerge ---- *)
Max(a, b) == IF a > b THEN a ELSE b

(* C14: tryMerge(A, B) with B not before A merges iff B ends inside A or   *)
(* the gap from A's end to B's offset is at most maxMergeDistance_; the    *)
(* merged A keeps its offset and has length max(la, (b - a) + lb); a       *)
(* refused merge leaves A as it was; B before A is a runtime error         *)
C14_MergeRule ==
  (probe.fn = "tryMerge" /\ probe.done) =>
    LET A == probe.args[1]
        B == probe.args[2]
        g == B.offset - (A.offset + A.length)
        res == probe.res
    IN IF B.offset < A.offset
       THEN res.err
       ELSE /\ ~res.err
            /\ res.merged <=>
                 (B.offset + B.length <= A.offset + A.length \/ g <= maxMergeDistance_)
            /\ res.merged =>
                 res.first = Region(A.offset,
                                    Max(A.length, (B.offset - A.offset) + B.length))
            /\ ~res.merged => res.first = A

C14_Witness ==
  /\ probe.fn = "tryMerge"
  /\ probe.done
  /\ probe.res.merged
  /\ maxMergeDistance_ > 0
  /\ probe.args[2].offset - Ends(probe.args[1]) = maxMergeDistance_
  /\ probe.res.first.length > probe.args[1].length

(* ---- C15: resolution of a request by readInternal ---- *)
(* the index entries that start at or before offset *)
StartsAtOrBefore(offset) == {i \in 1..Len(offsets_) : offsets_[i] <= offset}

Largest(S) == CHOOSE i \in S : \A j \in S : j <= i

CallRegion(k) == backendCalls[k].regions[1]

CalledBytes ==
  UNION {CallRegion(k).offset .. (Ends(CallRegion(k)) - 1) : k \in 1..Len(backendCalls)}

(* C16: a scalar load that completes has made one read per merged region,  *)
(* with the offset and length of that merged region, in ascending offset   *)
(* order, and no vread                                                     *)
C16_ScalarReadOrder ==
  (loadResult = "ok" /\ ~wsVRLoad_) =>
    /\ Len(backendCalls) = Len(offsets_)
    /\ \A k \in 1..Len(backendCalls) :
         /\ backendCalls[k].op = "read"
         /\ backendCalls[k].buffers = 1
         /\ Len(backendCalls[k].regions) = 1
         /\ CallRegion(k) = IndexEntry(k)
    /\ \A k \in 1..(Len(backendCalls) - 1) :
         CallRegion(k).offset < CallRegion(k + 1).offset
    /\ CalledBytes = RequestedBytes \cup SmallHoles

C16_Witness ==
  /\ loadResult = "ok"
  /\ ~wsVRLoad_
  /\ Len(backendCalls) = 2
  /\ backendCalls[1].op = "read"
  /\ backendCalls[2].op = "read"
  /\ CallRegion(2).length > 1

(* ---- C17: the order of the scalar reads and the order of enqueue ---- *)
(* the place in the enqueue order of the first region inside merged region mr *)
FirstEnqueued(mr) ==
  CHOOSE i \in 1..Len(enqueueOrder) :
    /\ Inside(enqueueOrder[i], mr)
    /\ \A j \in 1..(i - 1) : ~Inside(enqueueOrder[j], mr)

(* C17, as claimed: the scalar reads of a load are made in the order in    *)
(* which the regions of their merged regions were enqueued                 *)
C17_EnqueueOrder ==
  (loadResult = "ok" /\ ~wsVRLoad_) =>
    \A j \in 1..Len(backendCalls), k \in 1..Len(backendCalls) :
      j < k => FirstEnqueued(CallRegion(j)) < FirstEnqueued(CallRegion(k))

(* C17, amended: the scalar reads of a load are made in ascending offset   *)
(* order whatever the order of enqueue: every region of an earlier read    *)
(* starts before every region of a later read                              *)
C17_OffsetOrder ==
  (loadResult = "ok" /\ ~wsVRLoad_) =>
    \A j \in 1..Len(backendCalls), k \in 1..Len(backendCalls) :
      j < k =>
        /\ CallRegion(j).offset < CallRegion(k).offset
        /\ \A a \in 1..Len(enqueueOrder), b \in 1..Len(enqueueOrder) :
             (Inside(enqueueOrder[a], CallRegion(j)) /\ Inside(enqueueOrder[b], CallRegion(k)))
               => enqueueOrder[a].offset < enqueueOrder[b].offset

C17_Witness ==
  /\ loadResult = "ok"
  /\ ~wsVRLoad_
  /\ Len(enqueueOrder) = 2
  /\ enqueueOrder[1].offset > enqueueOrder[2].offset
  /\ Len(backendCalls) = 2
  /\ CallRegion(1) = enqueueOrder[2]
  /\ CallRegion(2) = enqueueOrder[1]

(* ---- C18: the backend call of a vectored load ---- *)
(* C18: a vectored load of at least one pending region makes one vread and *)
(* no read; the buffers and regions passed are as many as the merged       *)
(* regions, regions[i] being the i-th merged region; when the call is made *)
(* (whether it then fails or not) every merged region is in the index      *)
C18_VectoredDispatch ==
  (wsVRLoad_ /\ loadResult \in {"ok", "failed"}) =>
    /\ Len(backendCalls) = 1
    /\ backendCalls[1].op = "vread"
    /\ backendCalls[1].buffers = Len(backendCalls[1].regions)
    /\ Len(backendCalls[1].regions) = Len(offsets_)
    /\ Len(offsets_) = Len(buffers_)
    /\ Len(offsets_) >= 1
    /\ \A i \in 1..Len(offsets_) : backendCalls[1].regions[i] = IndexEntry(i)
    /\ BufferedBytes = RequestedBytes \cup SmallHoles
    /\ \A i \in 1..(Len(offsets_) - 1) :
         offsets_[i] + buffers_[i].size < offsets_[i + 1]

C18_Witness ==
  /\ wsVRLoad_
  /\ loadResult = "failed"
  /\ Len(backendCalls) = 1
  /\ Len(backendCalls[1].regions) = 2
  /\ Len(offsets_) = 2

(* ---- C19: the index as a function of the set of pending regions ---- *)
RECURSIVE SetToSeq(_)
SetToSeq(S) ==
  IF S = {} THEN <<>>
  ELSE LET x == CHOOSE y \in S : TRUE IN <<x>> \o SetToSeq(S \ {x})

(* what load computes when each pending region is enqueued once, in an     *)
(* order that does not depend on the order of enqueue                      *)
EnqueuedOnce ==
  mergeRegions(SortRegions(SetToSeq({enqueueOrder[i] : i \in 1..Len(enqueueOrder)})))

(* C19: the index a load produces, and the over-read it reports, are those *)
(* of the set of pending regions: the order of enqueue and the number of   *)
(* times a region was enqueued make no difference                          *)
C19_SetOnly ==
  loadResult = "ok" =>
    /\ ~EnqueuedOnce.err
    /\ [k \in 1..Len(offsets_) |-> IndexEntry(k)] = EnqueuedOnce.r
    /\ overreadReported = EnqueuedOnce.over

C19_Witness ==
  /\ loadResult = "ok"
  /\ hasStats
  /\ overreadReported > 0
  /\ \E i \in 1..Len(enqueueOrder), j \in 1..Len(enqueueOrder) :
       i < j /\ enqueueOrder[i] = enqueueOrder[j]
  /\ \E i \in 1..(Len(enqueueOrder) - 1) :
       enqueueOrder[i].offset > enqueueOrder[i + 1].offset

(* ---- C20: the span readInternal returns, for every uint64_t request ---- *)
(* C20: whenever readInternal returns a span for a request of length > 0,  *)
(* offset + length wrapping past MAX_UINT64 included, the span lies inside *)
(* the buffer it points into, and so does the stream readBuffer makes of it *)
C20_InBounds ==
  (/\ probe.fn = "readInternal"
   /\ probe.done
   /\ probe.args[2] > 0
   /\ ~probe.res.err
   /\ ~probe.res.null) =>
    LET offset == probe.args[1]
        length == probe.args[2]
        i == probe.res.index
    IN /\ offsets_[i] <= offset
       /\ (offset - offsets_[i]) + length <= buffers_[i].size
       /\ probe.stream.some =>
            \A b \in 1..Len(probe.stream.data) : probe.stream.data[b] # Uninit

====
